---- MODULE Spec2Model ----
(***************************************************************************)
(* Model of index.js, the AI Content Assistant MCP server: the start-up    *)
(* script (credential check, backend client, tool registration, routes,    *)
(* listener), the health-check route and the generateContentOutline        *)
(* handler with the backend call it awaits.                                *)
(*                                                                         *)
(* Text is a sequence of chunks.  The topic, the generated text and the    *)
(* credential are sequences of one-character strings; the constant parts   *)
(* of the prompt template are kept as the source lines they are.           *)
(***************************************************************************)
EXTENDS Integers, Sequences, FiniteSets, Bags, TLC

\* ---------------------------------------------------------------- bounds
MaxInvocations == 2
MaxHealthChecks == 1

Invocations == 1..MaxInvocations

\* The topics callers send: the empty topic and one with a quote in it.
Topics == {<<>>, <<"\"", "a">>}

\* The texts the backend generates: the empty text and one padded with blanks.
Texts == {<<>>, <<" ", "I", ".", " ">>}

\* ------------------------------------------------------------ environment
\* process.env restricted to GEMINI_API_KEY: unset, set to "", set to a key.
Environments ==
  { [set |-> FALSE, val |-> <<>>],
    [set |-> TRUE, val |-> <<>>],
    [set |-> TRUE, val |-> <<"k">>] }

\* The value of the const geminiApiKey before line 15 has run.
NotRead == [defined |-> FALSE, val |-> <<>>]

\* process.env.GEMINI_API_KEY: undefined when the variable is unset.
ReadEnvKey(e) ==
  IF e.set THEN [defined |-> TRUE, val |-> e.val] ELSE [defined |-> FALSE, val |-> <<>>]

\* A variant that only recognises undefined.
FalsyUndefinedOnly(v) == ~v.defined

\* JavaScript falsiness of undefined-or-string: !v holds for undefined and "".
Falsy(v) == ~v.defined \/ v.val = <<>>

\* ------------------------------------------------------------- the schema
\* Tool inputs as the host receives them: the type and value of input.topic.
ValidInputs == {[type |-> "string", val |-> t] : t \in Topics}
InvalidInputs == {[type |-> "undefined", val |-> <<>>], [type |-> "number", val |-> <<>>]}
Inputs == ValidInputs \cup InvalidInputs
NoInput == [type |-> "none", val |-> <<>>]

\* A schema with a non-emptiness constraint, z.string().min(1).
InputSchemaNonEmpty(input) == input.type = "string" /\ input.val # <<>>

\* z.object({ topic: z.string() })
InputSchema(input) == input.type = "string"

\* ------------------------------------------------------------- the prompt
PromptHead ==
  << "\n",
     "        You are an expert content strategist and editor.\n",
     "        A user wants to write a blog post about the following topic: \"" >>

PromptMiddle ==
  << "\".\n",
     "\n",
     "        Your task is to generate a comprehensive, well-structured content outline for this blog post.\n",
     "        The outline should be logical, flow well, and cover the key aspects of the topic.\n",
     "        Use a multi-level format with headings and bullet points.\n",
     "\n",
     "        Example Structure:\n",
     "        I. Introduction\n",
     "           - Hook: Start with a compelling statistic or question.\n",
     "           - Briefly introduce the topic and its importance.\n",
     "           - State the main argument or what the reader will learn.\n",
     "        II. Main Point 1\n",
     "           - Sub-point A\n",
     "           - Sub-point B\n",
     "        III. Main Point 2\n",
     "           - Sub-point A\n",
     "           - Sub-point B\n",
     "        IV. Conclusion\n",
     "           - Summarize the key points.\n",
     "           - Offer a final thought or call to action.\n",
     "\n",
     "        Generate the outline now for the topic: \"" >>

PromptTail ==
  << "\"\n",
     "      " >>

\* Only the first substitution point.
BuildPromptOnce(topic) == PromptHead \o topic \o PromptMiddle \o PromptTail

\* The template literal of the handler.
BuildPrompt(topic) == PromptHead \o topic \o PromptMiddle \o topic \o PromptTail

\* Number of places at which sub occurs in s as a contiguous run.
Occurrences(sub, s) ==
  Cardinality({k \in 1..(Len(s) - Len(sub) + 1) : SubSeq(s, k, k + Len(sub) - 1) = sub})

\* ------------------------------------------------------------ the backend
RawErrors == {"fetch failed"}
MalformedErrors == {"Response was blocked"}

\* What model.generateContent(prompt) can do: resolve with a result whose
\* text can be read, resolve with a result whose text cannot be read, reject.
Outcomes ==
  {[kind |-> "text", text |-> t, err |-> ""] : t \in Texts}
  \cup {[kind |-> "malformed", text |-> <<>>, err |-> e] : e \in MalformedErrors}
  \cup {[kind |-> "reject", text |-> <<>>, err |-> e] : e \in RawErrors}
NoOutcome == [kind |-> "none", text |-> <<>>, err |-> ""]

GenericMessage == "There was an issue contacting the AI content strategist."
HealthBody == "AI Content Assistant MCP Server is running and ready to help!"
ModelName == "gemini-1.5-flash"

NoClient == [constructed |-> FALSE, apiKey |-> <<>>, model |-> ""]
NoCall == [status |-> "none", prompt |-> <<>>, outcome |-> NoOutcome, attempts |-> 0]
NullOutline == [null |-> TRUE, text |-> <<>>]
IdleInvocation ==
  [state |-> "idle", input |-> NoInput, handlerRuns |-> 0, returned |-> 0, thrown |-> 0,
   outline |-> NullOutline, error |-> ""]

VARIABLES
  env,              \* process.env
  pc,               \* position of the start-up script
  geminiApiKey,     \* const geminiApiKey
  client,           \* genAI / model
  toolRegistered,   \* mcp.tool(...) has run
  routes,           \* paths mounted on app
  listening,        \* app.listen has bound the port
  exitCode,         \* -1 while the process runs
  console,          \* bag of lines written with console.error / console.log
  inv,              \* tool invocations as seen by the RPC host
  calls,            \* model.generateContent calls, by the invocation that made them
  healthResponses,  \* responses sent by the GET / route
  healthSeen        \* history: a response was sent while the backend was busy and failing

vars == <<env, pc, geminiApiKey, client, toolRegistered, routes, listening, exitCode,
          console, inv, calls, healthResponses, healthSeen>>

startupVars == <<env, pc, geminiApiKey, client, toolRegistered, routes, listening, exitCode>>

Log(line) == console (+) SetToBag({line})

Init ==
  /\ env \in Environments
  /\ pc = "readKey"
  /\ geminiApiKey = NotRead
  /\ client = NoClient
  /\ toolRegistered = FALSE
  /\ routes = {}
  /\ listening = FALSE
  /\ exitCode = -1
  /\ console = EmptyBag
  /\ inv = [i \in Invocations |-> IdleInvocation]
  /\ calls = [i \in Invocations |-> NoCall]
  /\ healthResponses = <<>>
  /\ healthSeen = FALSE

\* --------------------------------------------------------------- start-up
\* const geminiApiKey = process.env.GEMINI_API_KEY;
ReadApiKey ==
  /\ pc = "readKey"
  /\ geminiApiKey' = ReadEnvKey(env)
  /\ pc' = "checkKey"
  /\ UNCHANGED <<env, client, toolRegistered, routes, listening, exitCode, console, inv,
                 calls, healthResponses, healthSeen>>

\* The check that logs and carries on.
CheckApiKeyNoExit ==
  /\ pc = "checkKey"
  /\ console' = IF Falsy(geminiApiKey)
                  THEN Log([msg |-> "Error: GEMINI_API_KEY is not set in the environment.", detail |-> ""])
                  ELSE console
  /\ pc' = "construct"
  /\ UNCHANGED <<env, geminiApiKey, client, toolRegistered, routes, listening, exitCode,
                 inv, calls, healthResponses, healthSeen>>

\* if (!geminiApiKey) { console.error(...); process.exit(1); }
CheckApiKey ==
  /\ pc = "checkKey"
  /\ IF Falsy(geminiApiKey)
       THEN /\ console' = Log([msg |-> "Error: GEMINI_API_KEY is not set in the environment.", detail |-> ""])
            /\ exitCode' = 1
            /\ pc' = "exited"
       ELSE /\ pc' = "construct"
            /\ UNCHANGED <<console, exitCode>>
  /\ UNCHANGED <<env, geminiApiKey, client, toolRegistered, routes, listening, inv, calls,
                 healthResponses, healthSeen>>

\* new GoogleGenerativeAI(geminiApiKey); genAI.getGenerativeModel({ model: ... })
ConstructClient ==
  /\ pc = "construct"
  /\ client' = [constructed |-> TRUE, apiKey |-> geminiApiKey.val, model |-> ModelName]
  /\ pc' = "register"
  /\ UNCHANGED <<env, geminiApiKey, toolRegistered, routes, listening, exitCode, console,
                 inv, calls, healthResponses, healthSeen>>

\* new McpExpress(...); mcp.tool('generateContentOutline', schema, handler)
RegisterTool ==
  /\ pc = "register"
  /\ toolRegistered' = TRUE
  /\ pc' = "mount"
  /\ UNCHANGED <<env, geminiApiKey, client, routes, listening, exitCode, console, inv,
                 calls, healthResponses, healthSeen>>

\* app.use('/mcp', mcp.router); app.get('/', ...)
MountRoutes ==
  /\ pc = "mount"
  /\ routes' = {"/mcp", "/"}
  /\ pc' = "listen"
  /\ UNCHANGED <<env, geminiApiKey, client, toolRegistered, listening, exitCode, console,
                 inv, calls, healthResponses, healthSeen>>

\* app.listen(port, () => console.log(...))
Listen ==
  /\ pc = "listen"
  /\ listening' = TRUE
  /\ console' = Log([msg |-> "Server is live on port", detail |-> ""])
  /\ pc' = "serving"
  /\ UNCHANGED <<env, geminiApiKey, client, toolRegistered, routes, exitCode, inv, calls,
                 healthResponses, healthSeen>>

\* ----------------------------------------------------------- health check
\* A backend call is in flight and an invocation has failed.
BackendBusyAndFailing ==
  /\ \E i \in Invocations : calls[i].status = "pending"
  /\ \E i \in Invocations : inv[i].state = "failed"

\* The answer of a route that reports on the backend.
HealthAnswerBackendAware ==
  IF \E i \in Invocations : calls[i].status = "pending"
    THEN [status |-> 200, body |-> "busy"]
    ELSE IF \E i \in Invocations : inv[i].state = "failed"
      THEN [status |-> 503, body |-> ""]
      ELSE [status |-> 200, body |-> HealthBody]

\* res.send('AI Content Assistant MCP Server is running and ready to help!')
HealthAnswer == [status |-> 200, body |-> HealthBody]

\* GET /
HealthCheck ==
  /\ listening
  /\ "/" \in routes
  /\ Len(healthResponses) < MaxHealthChecks
  /\ healthResponses' = Append(healthResponses, HealthAnswer)
  /\ healthSeen' = (healthSeen \/ BackendBusyAndFailing)
  /\ UNCHANGED <<startupVars, console, inv, calls>>

\* ------------------------------------------------------- tool invocation
Serving == listening /\ toolRegistered /\ "/mcp" \in routes

\* The host refuses a call whose input does not match the declared schema.
ToolCallRejected(i, input) ==
  /\ Serving
  /\ inv[i].state = "idle"
  /\ ~InputSchema(input)
  /\ inv' = [inv EXCEPT ![i].state = "rejected", ![i].input = input]
  /\ UNCHANGED <<startupVars, console, calls, healthResponses, healthSeen>>

\* async (input) => { try { const prompt = `...`; ... await model.generateContent(prompt)
\* The handler runs up to its await: it builds the prompt and starts the call.
HandlerStart(i, input) ==
  /\ Serving
  /\ inv[i].state = "idle"
  /\ InputSchema(input)
  /\ inv' = [inv EXCEPT ![i].state = "pending", ![i].input = input,
                        ![i].handlerRuns = @ + 1]
  /\ calls' = [calls EXCEPT ![i] = [status |-> "pending", prompt |-> BuildPrompt(input.val),
                                    outcome |-> NoOutcome, attempts |-> @.attempts + 1]]
  /\ UNCHANGED <<startupVars, console, healthResponses, healthSeen>>

\* The promise returned by model.generateContent settles.
BackendSettle(i, o) ==
  /\ calls[i].status = "pending"
  /\ calls' = [calls EXCEPT ![i].status = "settled", ![i].outcome = o]
  /\ UNCHANGED <<startupVars, console, inv, healthResponses, healthSeen>>

RECURSIVE TrimStart(_)
TrimStart(t) == IF t # <<>> /\ Head(t) = " " THEN TrimStart(Tail(t)) ELSE t

RECURSIVE TrimEnd(_)
TrimEnd(t) ==
  IF t # <<>> /\ t[Len(t)] = " " THEN TrimEnd(SubSeq(t, 1, Len(t) - 1)) ELSE t

\* An extraction that trims the generated text.
ExtractOutlineTrimmed(o) == [null |-> FALSE, text |-> TrimEnd(TrimStart(o.text))]

\* const outlineText = result.response.text(); return { outline: outlineText };
ExtractOutline(o) == [null |-> FALSE, text |-> o.text]

\* A catch block that rethrows what it caught.
CaughtMessageRaw(o) == o.err

\* throw new Error('There was an issue contacting the AI content strategist.')
CaughtMessage(o) == GenericMessage

\* console.error('Error calling Gemini API:', error)
ErrorLine(o) == [msg |-> "Error calling Gemini API:", detail |-> o.err]

\* A continuation whose catch block logs and falls through.
HandlerResumeSwallow(i) ==
  /\ inv[i].state = "pending"
  /\ calls[i].status = "settled"
  /\ LET o == calls[i].outcome
     IN IF o.kind = "text"
          THEN /\ inv' = [inv EXCEPT ![i].state = "success", ![i].returned = @ + 1,
                                     ![i].outline = ExtractOutline(o)]
               /\ UNCHANGED console
          ELSE /\ console' = Log(ErrorLine(o))
               /\ inv' = [inv EXCEPT ![i].state = "failed"]
  /\ UNCHANGED <<startupVars, calls, healthResponses, healthSeen>>

\* A continuation that calls the backend a second time after a failure.
HandlerResumeRetry(i) ==
  /\ inv[i].state = "pending"
  /\ calls[i].status = "settled"
  /\ LET o == calls[i].outcome
     IN IF o.kind = "text"
          THEN /\ inv' = [inv EXCEPT ![i].state = "success", ![i].returned = @ + 1,
                                     ![i].outline = ExtractOutline(o)]
               /\ UNCHANGED <<console, calls>>
          ELSE IF calls[i].attempts < 2
            THEN /\ calls' = [calls EXCEPT ![i].status = "pending",
                                           ![i].outcome = NoOutcome,
                                           ![i].attempts = @ + 1]
                 /\ UNCHANGED <<console, inv>>
            ELSE /\ console' = Log(ErrorLine(o))
                 /\ inv' = [inv EXCEPT ![i].state = "failed", ![i].thrown = @ + 1,
                                       ![i].error = CaughtMessage(o)]
                 /\ UNCHANGED calls
  /\ UNCHANGED <<startupVars, healthResponses, healthSeen>>

\* A continuation that reads the result from a slot shared by all invocations.
HandlerResumeShared(i) ==
  /\ inv[i].state = "pending"
  /\ calls[i].status = "settled"
  /\ \E j \in Invocations :
       /\ calls[j].status = "settled"
       /\ LET o == calls[j].outcome
          IN IF o.kind = "text"
               THEN /\ inv' = [inv EXCEPT ![i].state = "success", ![i].returned = @ + 1,
                                          ![i].outline = ExtractOutline(o)]
                    /\ UNCHANGED console
               ELSE /\ console' = Log(ErrorLine(o))
                    /\ inv' = [inv EXCEPT ![i].state = "failed", ![i].thrown = @ + 1,
                                          ![i].error = CaughtMessage(o)]
  /\ UNCHANGED <<startupVars, calls, healthResponses, healthSeen>>

\* The handler from its await to its end:
\*   const response = result.response; const outlineText = response.text();
\*   return { outline: outlineText };
\* } catch (error) { console.error(...); throw new Error(...); }
HandlerResume(i) ==
  /\ inv[i].state = "pending"
  /\ calls[i].status = "settled"
  /\ LET o == calls[i].outcome
     IN IF o.kind = "text"
          THEN /\ inv' = [inv EXCEPT ![i].state = "success", ![i].returned = @ + 1,
                                     ![i].outline = ExtractOutline(o)]
               /\ UNCHANGED console
          ELSE /\ console' = Log(ErrorLine(o))
               /\ inv' = [inv EXCEPT ![i].state = "failed", ![i].thrown = @ + 1,
                                     ![i].error = CaughtMessage(o)]
  /\ UNCHANGED <<startupVars, calls, healthResponses, healthSeen>>

\* ---------------------------------------------------------- specification
Next ==
  \/ ReadApiKey
  \/ CheckApiKey
  \/ ConstructClient
  \/ RegisterTool
  \/ MountRoutes
  \/ Listen
  \/ HealthCheck
  \/ \E i \in Invocations, input \in Inputs : ToolCallRejected(i, input)
  \/ \E i \in Invocations, input \in Inputs : HandlerStart(i, input)
  \/ \E i \in Invocations, o \in Outcomes : BackendSettle(i, o)
  \/ \E i \in Invocations : HandlerResume(i)

Spec == Init /\ [][Next]_vars

\* The continuation of an await runs once its promise has settled.
FairSpec == Spec /\ \A i \in Invocations : WF_vars(HandlerResume(i))

TypeOK ==
  /\ env \in Environments
  /\ pc \in {"readKey", "checkKey", "exited", "construct", "register", "mount", "listen",
             "serving"}
  /\ exitCode \in {-1, 1}
  /\ \A i \in Invocations :
       /\ inv[i].state \in {"idle", "rejected", "pending", "success", "failed"}
       /\ calls[i].status \in {"none", "pending", "settled"}

\* ----------------------------------------------------------------- claims
Started(i) == inv[i].state \in {"pending", "success", "failed"}
Terminal(i) == inv[i].state \in {"success", "failed"}

\* C1: an invocation of the handler ends in exactly one outcome.  It never
\* both returns and throws; a returned response carries a non-null outline;
\* a terminal invocation never changes again; and once the backend call has
\* settled the invocation does reach its one outcome.
C1_ExactlyOneOutcome ==
  /\ [](\A i \in Invocations :
          /\ inv[i].returned + inv[i].thrown <= 1
          /\ inv[i].state = "pending" => inv[i].returned + inv[i].thrown = 0
          /\ inv[i].state = "success" =>
               inv[i].returned = 1 /\ inv[i].thrown = 0 /\ ~inv[i].outline.null
          /\ inv[i].state = "failed" =>
               inv[i].thrown = 1 /\ inv[i].returned = 0 /\ inv[i].outline.null)
  /\ [][\A i \in Invocations : Terminal(i) => inv'[i] = inv[i] /\ calls'[i] = calls[i]]_vars
  /\ \A i \in Invocations :
       (calls[i].status = "settled") ~> (inv[i].returned + inv[i].thrown = 1)

\* One invocation has returned a response and another has failed.
C1_Witness ==
  \E i, j \in Invocations :
    /\ inv[i].state = "success" /\ inv[i].returned = 1
    /\ inv[j].state = "failed" /\ inv[j].thrown = 1

\* C2: every run of the handler makes exactly one backend call, whether the
\* call succeeds or fails; a failure is not retried.
C2_OneBackendCall ==
  \A i \in Invocations :
    /\ inv[i].handlerRuns = 1 => calls[i].attempts = 1
    /\ inv[i].handlerRuns = 0 => calls[i].attempts = 0

\* An invocation has failed after its backend call rejected.
C2_Witness ==
  \E i \in Invocations :
    /\ inv[i].state = "failed"
    /\ calls[i].outcome.kind = "reject"
    /\ calls[i].attempts = 1

\* The message the specification quotes for a backend failure.
SpecMessage == "there was an issue contacting the content strategist backend"

\* C3 as stated: every failed invocation carries the message
\* "there was an issue contacting the content strategist backend".
C3_Original ==
  \A i \in Invocations : inv[i].state = "failed" => inv[i].error = SpecMessage

\* C3 as amended: every failed invocation carries the one fixed message
\* 'There was an issue contacting the AI content strategist.', whatever the
\* cause, and never the raw error of the backend.
C3_FixedGenericMessage ==
  \A i \in Invocations :
    inv[i].state = "failed" =>
      /\ inv[i].error = "There was an issue contacting the AI content strategist."
      /\ inv[i].error # calls[i].outcome.err
      /\ inv[i].error \notin RawErrors \cup MalformedErrors

\* Two invocations have failed for different reasons, a rejection and an
\* unreadable response.
C3_Witness ==
  \E i, j \in Invocations :
    /\ inv[i].state = "failed" /\ calls[i].outcome.kind = "reject"
    /\ inv[j].state = "failed" /\ calls[j].outcome.kind = "malformed"

\* C4: when the backend produces the text T, the outline returned is T,
\* unchanged, for every T including the empty text.
C4_OutlineVerbatim ==
  \A i \in Invocations :
    inv[i].state = "success" =>
      /\ calls[i].outcome.kind = "text"
      /\ ~inv[i].outline.null
      /\ inv[i].outline.text = calls[i].outcome.text

\* One invocation has returned a text padded with blanks and another the
\* empty text.
C4_Witness ==
  \E i, j \in Invocations :
    /\ inv[i].state = "success" /\ calls[i].outcome.text = <<" ", "I", ".", " ">>
    /\ inv[j].state = "success" /\ calls[j].outcome.text = <<>>

\* C5 as stated: the prompt passed to the backend contains the topic exactly
\* once.
C5_Original ==
  \A i \in Invocations :
    calls[i].status # "none" => Occurrences(inv[i].input.val, calls[i].prompt) = 1

\* C5 as amended: the prompt passed to the backend is the constant template
\* with the topic embedded unmodified at its two substitution points, and
\* nothing else of it depends on the topic.
C5_TopicEmbeddedTwice ==
  \A i \in Invocations :
    calls[i].status # "none" =>
      LET t == inv[i].input.val
          p == calls[i].prompt
          h == Len(PromptHead)
          m == Len(PromptMiddle)
          n == Len(t)
      IN /\ Len(p) = h + m + Len(PromptTail) + 2 * n
         /\ SubSeq(p, 1, h) = PromptHead
         /\ SubSeq(p, h + 1, h + n) = t
         /\ SubSeq(p, h + n + 1, h + n + m) = PromptMiddle
         /\ SubSeq(p, h + n + m + 1, h + n + m + n) = t
         /\ SubSeq(p, h + n + m + n + 1, Len(p)) = PromptTail

\* A backend call has been made for a topic that starts with a double quote.
C5_Witness ==
  \E i \in Invocations : calls[i].status # "none" /\ inv[i].input.val = <<"\"", "a">>

\* C6: with GEMINI_API_KEY unset the process logs an error and exits with a
\* non-zero code; it never constructs the backend client, mounts the
\* health-check route, binds the listener or answers a request.
C6_MissingKeyExits ==
  ~env.set =>
    /\ ~listening
    /\ ~client.constructed
    /\ routes = {}
    /\ healthResponses = <<>>
    /\ pc \in {"readKey", "checkKey", "exited"}
    /\ pc = "exited" =>
         /\ exitCode # 0 /\ exitCode # -1
         /\ BagIn([msg |-> "Error: GEMINI_API_KEY is not set in the environment.",
                   detail |-> ""], console)

\* The process has exited with the variable unset.
C6_Witness == ~env.set /\ pc = "exited" /\ exitCode = 1

\* C7: every GET / is answered with status 200 and the same non-empty body,
\* whatever the backend is doing, and answering it touches neither the
\* backend calls nor the invocations.
C7_HealthStatic ==
  /\ [](\A k \in 1..Len(healthResponses) :
          /\ healthResponses[k].status = 200
          /\ healthResponses[k].body =
               "AI Content Assistant MCP Server is running and ready to help!"
          /\ healthResponses[k].body # "")
  /\ [][Len(healthResponses') > Len(healthResponses) => calls' = calls /\ inv' = inv]_vars

\* The route has answered while a backend call was in flight and an
\* invocation had already failed.
C7_Witness == healthSeen /\ Len(healthResponses) > 0

\* C8: each invocation's backend call receives the prompt built from its own
\* topic, distinct topics give distinct prompts, each invocation ends with
\* the result of its own call, and the credential and the backend client do
\* not change once the client is constructed.
C8_NoCrossContamination ==
  /\ [](\A i \in Invocations :
          /\ Started(i) => calls[i].prompt = BuildPrompt(inv[i].input.val)
          /\ inv[i].state = "success" =>
               calls[i].outcome.kind = "text" /\ inv[i].outline.text = calls[i].outcome.text
          /\ inv[i].state = "failed" => calls[i].outcome.kind \in {"reject", "malformed"}
          /\ \A j \in Invocations :
               Started(i) /\ Started(j) /\ inv[i].input.val # inv[j].input.val =>
                 calls[i].prompt # calls[j].prompt)
  /\ [][client.constructed => client' = client /\ geminiApiKey' = geminiApiKey]_vars

\* Two invocations with distinct topics are both suspended at their await
\* while their calls have settled with different texts.
C8_Witness ==
  \E i, j \in Invocations :
    /\ inv[i].input.val # inv[j].input.val
    /\ inv[i].state = "pending" /\ inv[j].state = "pending"
    /\ calls[i].status = "settled" /\ calls[j].status = "settled"
    /\ calls[i].outcome.kind = "text" /\ calls[j].outcome.kind = "text"
    /\ calls[i].outcome.text # calls[j].outcome.text

\* C9: a call whose topic is not a string is rejected without the handler
\* running or the backend being called; every string topic, the empty one
\* included, reaches the handler, which calls the backend without further
\* validation.
C9_SchemaGate ==
  \A i \in Invocations :
    inv[i].state # "idle" =>
      /\ inv[i].input.type # "string" =>
           /\ inv[i].state = "rejected"
           /\ inv[i].handlerRuns = 0
           /\ calls[i] = NoCall
      /\ inv[i].input.type = "string" =>
           /\ inv[i].state # "rejected"
           /\ inv[i].handlerRuns = 1
           /\ calls[i].attempts >= 1

\* One call has been rejected and another, with the empty topic, has reached
\* the handler and the backend.
C9_Witness ==
  \E i, j \in Invocations :
    /\ inv[i].state = "rejected"
    /\ inv[j].input = [type |-> "string", val |-> <<>>] /\ calls[j].status # "none"

\* C10: GEMINI_API_KEY set to the empty string is treated as unset: the
\* process exits with code 1 without constructing the client or binding the
\* listener, so a listening server has a non-empty credential.
C10_EmptyKeyIsMissing ==
  /\ (env.set /\ env.val = <<>>) =>
       /\ ~listening
       /\ ~client.constructed
       /\ pc \in {"readKey", "checkKey", "exited"}
       /\ pc = "exited" => exitCode = 1
  /\ listening => geminiApiKey.defined /\ geminiApiKey.val # <<>> /\ client.apiKey # <<>>
  /\ client.constructed => client.apiKey # <<>>

\* The process has exited with the variable set to the empty string.
C10_Witness == env.set /\ env.val = <<>> /\ pc = "exited" /\ exitCode = 1

====
